---- MODULE Spec2Model ----
(***************************************************************************)
(* Model of the vocabulary backend (be_enzo_english_test): the global word *)
(* dictionary (Reference Store) with its image files, the folders          *)
(* collection, the wordlists collection and the folder assignments, with   *)
(* one action per request handler.  Identifiers that the                   *)
(* code rewrites character by character (user ids, folder ids, WordList    *)
(* ids) are sequences of one-character strings; word business keys, which  *)
(* the code only compares, are strings.                                    *)
(***************************************************************************)
EXTENDS Integers, Sequences, FiniteSets, TLC

VARIABLES words, folders, wordlists, clock, last, created, inflight,
          user_folder_words, image_users

vars == <<words, folders, wordlists, clock, last, created, inflight,
          user_folder_words, image_users>>

(***************************************************************************)
(* Bounds of the model.                                                    *)
(***************************************************************************)
\* Largest value of the logical clock (number of timestamps handed out).
MaxClock == 2
\* Longest words / word_ids array carried by a request.
MaxReqLen == 2
\* Longest owner or folder identifier of the key-derivation runs.
MaxIdLen == 2

(***************************************************************************)
(* Values.                                                                 *)
(***************************************************************************)
\* Python None in a string-valued field of a word document.
None == "None"
\* Python None in an identifier-valued request field (ids have min_length 1).
NoId == <<>>

HARDCODED_EMAIL ==
    <<"d","i","n","h","t","h","o","n","g","c","h","a","u","@",
      "g","m","a","i","l",".","c","o","m">>
\* The part of the hardcoded e-mail address after the "@".
MAIL_DOMAIN == <<"g","m","a","i","l",".","c","o","m">>
\* A second owner identifier.
OTHER_EMAIL == <<"b","o","b","@","x",".","i","o">>

TEST_FOLDER_ID ==
    <<"6","8","d","d","f","d","8","9","2","6","7","2","0","3","4","c",
      "f","5","4","8","4","e","2","e">>
\* Number of hexadecimal digits of an ObjectId string.
ObjectIdHexLen == 24
HexDigits == {"0","1","2","3","4","5","6","7","8","9",
              "a","b","c","d","e","f","A","B","C","D","E","F"}
RepeatedHex(c) == [i \in 1..ObjectIdHexLen |-> c]
\* A well-formed ObjectId string that names no folder.
UNKNOWN_FOLDER_ID == RepeatedHex("9")
\* The folder id the test-suite uses for the folder-scoped lookup.
NONEXISTENT_FOLDER ==
    <<"n","o","n","e","x","i","s","t","e","n","t","_","f","o","l","d","e","r">>

WordIds == {"APPLE_001", "GRAPE_003"}
WordTexts == {"apple"}
Definitions == {"d1"}
Examples == {None}
\* A field the request leaves unset (pydantic exclude_unset).
Unset == "Unset"

UserIds == {HARDCODED_EMAIL, OTHER_EMAIL}
FolderIds == {TEST_FOLDER_ID, UNKNOWN_FOLDER_ID, NONEXISTENT_FOLDER}

(***************************************************************************)
(* Generic helpers.                                                        *)
(***************************************************************************)
Range(s) == {s[i] : i \in 1..Len(s)}

Min(S) == CHOOSE x \in S : \A y \in S : x <= y

\* Sequences over S of length lo..hi.
SeqsUpTo(S, lo, hi) == UNION {[1..n -> S] : n \in lo..hi}

\* All orders in which the elements of a set can be listed.
ListsOf(S) ==
    {s \in [1..Cardinality(S) -> S] :
        \A i, j \in 1..Cardinality(S) : i # j => s[i] # s[j]}

\* str.replace(old, new) for a one-character old and new.
Replace(s, old, new) ==
    [i \in 1..Len(s) |-> IF s[i] = old THEN new ELSE s[i]]

\* list.remove(x): drops the first occurrence of x.
ListRemove(s, x) ==
    LET i == Min({k \in 1..Len(s) : s[k] = x})
    IN  [k \in 1..(Len(s) - 1) |-> IF k < i THEN s[k] ELSE s[k + 1]]

\* Python truthiness of an optional string.
Truthy(x) == x # None /\ x # ""

(***************************************************************************)
(* models/wordlist.py                                                      *)
(***************************************************************************)
\* generate_wordlist_id without the cleaning of the two identifiers.
generate_wordlist_id_raw(user_id, folder_id) ==
    <<"l","i","s","t","_">> \o user_id \o <<"_">> \o folder_id

generate_wordlist_id(user_id, folder_id) ==
    LET clean_user_id == Replace(Replace(user_id, "@", "_"), ".", "_")
        clean_folder_id == Replace(folder_id, "-", "_")
    IN  <<"l","i","s","t","_">> \o clean_user_id \o <<"_">> \o clean_folder_id

\* The WordList ids that requests address.
WordListIds ==
    {generate_wordlist_id(u, f) :
        u \in UserIds, f \in {TEST_FOLDER_ID}}

(***************************************************************************)
(* bson.ObjectId                                                           *)
(***************************************************************************)
IsValidObjectId(s) ==
    Len(s) = ObjectIdHexLen /\ \A i \in 1..Len(s) : s[i] \in HexDigits

LowerHex(c) ==
    CASE c = "A" -> "a" [] c = "B" -> "b" [] c = "C" -> "c"
      [] c = "D" -> "d" [] c = "E" -> "e" [] c = "F" -> "f"
      [] OTHER -> c

\* ObjectId(s): the 12 bytes the hexadecimal string denotes, written in
\* lower case.
ObjectId(s) == [i \in 1..Len(s) |-> LowerHex(s[i])]

(***************************************************************************)
(* Collection primitives (motor / MongoDB).                                *)
(***************************************************************************)
\* Position of the first wordlists document with this word_list_id, 0 if none.
find_one(coll, word_list_id) ==
    LET S == {i \in 1..Len(coll) : /\ "word_list_id" \in DOMAIN coll[i]
                                   /\ coll[i].word_list_id = word_list_id}
    IN  IF S = {} THEN 0 ELSE Min(S)

\* delete_one: drops the first matching document.
delete_one(coll, word_list_id) ==
    LET i == find_one(coll, word_list_id)
    IN  IF i = 0 THEN coll
        ELSE [k \in 1..(Len(coll) - 1) |-> IF k < i THEN coll[k] ELSE coll[k + 1]]

\* folders.find_one({"_id": oid})
find_folder(oid) == {f \in folders : f._id = oid}

(***************************************************************************)
(* Responses.  last is the response to the latest request together with    *)
(* the request that produced it.                                           *)
(***************************************************************************)
NoRequest ==
    [word_list_id |-> NoId, user_id |-> NoId, folder_id |-> NoId,
     word_id |-> None, word_ids |-> <<>>, fields |-> {}]

NoResponse ==
    [op |-> "none", req |-> NoRequest, status |-> 0, detail |-> "",
     word_list_id |-> NoId, user_id |-> NoId, folder_id |-> NoId,
     words |-> <<>>, resolved |-> <<>>,
     created_at |-> 0, updated_at |-> 0,
     added |-> 0, skipped |-> 0,
     total_words |-> 0, words_with_images |-> 0, words_with_examples |-> 0,
     name |-> None]

\* A response that so far only records the request it answers.
Request(op, word_list_id, user_id, folder_id, word_id, word_ids) ==
    [NoResponse EXCEPT !.op = op,
                       !.req = [word_list_id |-> word_list_id,
                                user_id |-> user_id, folder_id |-> folder_id,
                                word_id |-> word_id, word_ids |-> word_ids,
                                fields |-> {}]]

\* raise HTTPException(status_code, detail)
HTTPException(req, status_code, detail) ==
    [req EXCEPT !.status = status_code, !.detail = detail]

\* convert_wordlist_to_response of a stored document, status 200.
WordListResponse(req, doc) ==
    [req EXCEPT !.status = 200, !.word_list_id = doc.word_list_id,
                !.user_id = doc.user_id, !.folder_id = doc.folder_id,
                !.words = doc.words,
                !.created_at = doc.created_at, !.updated_at = doc.updated_at]

(***************************************************************************)
(* Initial state: the database the test-suite runs against.  A word of the *)
(* fixture is in the dictionary, the test folder belongs to the hardcoded  *)
(* user, and the WordList of (hardcoded user, test folder) was created     *)
(* with that word at time 0.                                               *)
(***************************************************************************)
FixtureWord(word_id) ==
    [word_id |-> word_id, word |-> "apple", definition |-> "d1", example |-> "ex",
     image_url |-> "image_users/" \o word_id \o ".jpg",
     created_at |-> 0, updated_at |-> 0]

FixtureWordList ==
    [word_list_id |-> generate_wordlist_id(HARDCODED_EMAIL, TEST_FOLDER_ID),
     user_id |-> HARDCODED_EMAIL, folder_id |-> TEST_FOLDER_ID,
     words |-> <<"APPLE_001">>, created_at |-> 0, updated_at |-> 0]

Init ==
    /\ words = [w \in {"APPLE_001"} |-> FixtureWord(w)]
    /\ folders = {[_id |-> ObjectId(TEST_FOLDER_ID), user_id |-> HARDCODED_EMAIL]}
    /\ wordlists = <<FixtureWordList>>
    /\ clock = 0
    /\ last = NoResponse
    /\ created = {<<HARDCODED_EMAIL, TEST_FOLDER_ID>>}
    /\ inflight = <<>>
    /\ user_folder_words = {}
    /\ image_users = {words[w].image_url : w \in DOMAIN words}

(***************************************************************************)
(* routers/simplified_words_router.py: the global word dictionary.         *)
(***************************************************************************)
\* create_word without the lookup of the business key.
create_word_unchecked(word_id, word, definition, example) ==
    LET req == Request("create_word", NoId, NoId, NoId, word_id, <<>>)
    IN  /\ clock < MaxClock
        /\ clock' = clock + 1
        /\ words' = [w \in DOMAIN words \cup {word_id} |->
                       IF w = word_id
                       THEN [word_id |-> word_id, word |-> word,
                             definition |-> definition, example |-> example,
                             image_url |-> None,
                             created_at |-> clock', updated_at |-> clock']
                       ELSE words[w]]
        /\ last' = [req EXCEPT !.status = 200]
        /\ UNCHANGED <<folders, wordlists, created>>

create_word(word_id, word, definition, example) ==
    LET req == Request("create_word", NoId, NoId, NoId, word_id, <<>>)
    IN  IF word_id \in DOMAIN words
        THEN /\ last' = HTTPException(req, 409, "already exists")
             /\ UNCHANGED <<words, folders, wordlists, clock, created>>
        ELSE /\ clock < MaxClock
             /\ clock' = clock + 1
             /\ words' = [w \in DOMAIN words \cup {word_id} |->
                            IF w = word_id
                            THEN [word_id |-> word_id, word |-> word,
                                  definition |-> definition, example |-> example,
                                  image_url |-> None,
                                  created_at |-> clock', updated_at |-> clock']
                            ELSE words[w]]
             /\ last' = [req EXCEPT !.status = 200]
             /\ UNCHANGED <<folders, wordlists, created>>

\* update_data of update_word: the fields the request sets.
SetFields(doc, word, definition, example) ==
    [doc EXCEPT !.word = IF word = Unset THEN @ ELSE word,
                !.definition = IF definition = Unset THEN @ ELSE definition,
                !.example = IF example = Unset THEN @ ELSE example]

update_word(word_id, word, definition, example) ==
    LET req == [Request("update_word", NoId, NoId, NoId, word_id, <<>>)
                  EXCEPT !.req.fields =
                      {f \in {"word", "definition", "example"} :
                          [word |-> word, definition |-> definition,
                           example |-> example][f] # Unset}]
    IN  IF word = Unset /\ definition = Unset /\ example = Unset
        THEN /\ last' = HTTPException(req, 400, "No fields provided for update")
             /\ UNCHANGED <<words, folders, wordlists, clock, created>>
        ELSE IF word_id \notin DOMAIN words
        THEN /\ last' = HTTPException(req, 404, "not found")
             /\ UNCHANGED <<words, folders, wordlists, clock, created>>
        ELSE /\ clock < MaxClock
             /\ clock' = clock + 1
             /\ words' = [words EXCEPT ![word_id] =
                            [SetFields(@, word, definition, example)
                                EXCEPT !.updated_at = clock']]
             /\ last' = [req EXCEPT !.status = 200]
             /\ UNCHANGED <<folders, wordlists, created>>

(***************************************************************************)
(* utils/image_helpers.py: the image files of the image_users directory,   *)
(* each named by its relative path.                                        *)
(***************************************************************************)
IMAGE_USERS_DIR == "image_users"
MAX_FILE_SIZE == 5 * 1024 * 1024
ALLOWED_EXTENSIONS == {".jpg", ".jpeg", ".png", ".webp"}
ALLOWED_MIME_TYPES == {"image/jpeg", "image/jpg", "image/png", "image/webp"}

\* An upload: filename suffix (None for an upload without a filename),
\* declared content type and size in bytes.
Suffixes == {".jpg", ".PNG", ".gif", None}
ContentTypes == {"image/png", "text/plain"}
Sizes == {1, MAX_FILE_SIZE + 1}
UploadFile(suffix, content_type, size) ==
    [suffix |-> suffix, content_type |-> content_type, size |-> size]

\* str.lower() on the suffixes of the model.
Lower(suffix) == IF suffix = ".PNG" THEN ".png" ELSE suffix

ImagePath(word_id, file_ext) == IMAGE_USERS_DIR \o "/" \o word_id \o file_ext

\* validate_image_file: 0 when the file passes, else the status raised.
validate_image_file(file) ==
    IF file.suffix # None /\ Lower(file.suffix) \notin ALLOWED_EXTENSIONS THEN 400
    ELSE IF file.content_type \notin ALLOWED_MIME_TYPES THEN 400
    ELSE IF file.size > MAX_FILE_SIZE THEN 413
    ELSE 0

\* get_word_image_path: the paths the loop over ALLOWED_EXTENSIONS can
\* return; a set is iterated in no fixed order, so any existing one.
get_word_image_path(word_id) ==
    {ImagePath(word_id, ext) : ext \in ALLOWED_EXTENSIONS} \cap image_users

\* delete_word_image: the directories the call can leave behind.
delete_word_image(word_id) ==
    IF get_word_image_path(word_id) = {}
    THEN {image_users}
    ELSE {image_users \ {p} : p \in get_word_image_path(word_id)}

\* delete_word that also retracts the key from every WordList.
delete_word_cascade(word_id) ==
    LET req == Request("delete_word", NoId, NoId, NoId, word_id, <<>>)
    IN  IF word_id \notin DOMAIN words
        THEN /\ last' = HTTPException(req, 404, "not found")
             /\ UNCHANGED <<words, folders, wordlists, clock, created, image_users>>
        ELSE /\ words' = [w \in DOMAIN words \ {word_id} |-> words[w]]
             /\ wordlists' = [i \in DOMAIN wordlists |->
                                IF "words" \in DOMAIN wordlists[i]
                                THEN [wordlists[i] EXCEPT !.words =
                                        SelectSeq(@, LAMBDA w : w # word_id)]
                                ELSE wordlists[i]]
             /\ \E files \in delete_word_image(word_id) : image_users' = files
             /\ last' = [req EXCEPT !.status = 200]
             /\ UNCHANGED <<folders, clock, created>>

delete_word(word_id) ==
    LET req == Request("delete_word", NoId, NoId, NoId, word_id, <<>>)
    IN  IF word_id \notin DOMAIN words
        THEN /\ last' = HTTPException(req, 404, "not found")
             /\ UNCHANGED <<words, folders, wordlists, clock, created, image_users>>
        ELSE /\ words' = [w \in DOMAIN words \ {word_id} |-> words[w]]
             /\ \E files \in delete_word_image(word_id) : image_users' = files
             /\ last' = [req EXCEPT !.status = 200]
             /\ UNCHANGED <<folders, wordlists, clock, created>>

\* save_word_image: the file extension of the stored file.
file_ext(file) == IF file.suffix # None THEN Lower(file.suffix) ELSE ".jpg"

\* upload_word_image: the word is looked up, its stored image is deleted,
\* then save_word_image validates the upload and writes the file, and the
\* word document gets the new path.
upload_word_image(word_id, image) ==
    LET req == Request("upload_word_image", NoId, NoId, NoId, word_id, <<>>)
        image_path == ImagePath(word_id, file_ext(image))
    IN  IF word_id \notin DOMAIN words
        THEN /\ last' = HTTPException(req, 404, "not found")
             /\ UNCHANGED <<words, folders, wordlists, clock, created, image_users>>
        ELSE \E files \in delete_word_image(word_id) :
               IF validate_image_file(image) # 0
               THEN /\ image_users' = files
                    /\ last' = HTTPException(req, validate_image_file(image),
                                             "Invalid file")
                    /\ UNCHANGED <<words, folders, wordlists, clock, created>>
               ELSE /\ clock < MaxClock
                    /\ clock' = clock + 1
                    /\ image_users' = files \cup {image_path}
                    /\ words' = [words EXCEPT ![word_id].image_url = image_path,
                                              ![word_id].updated_at = clock']
                    /\ last' = [req EXCEPT !.status = 200]
                    /\ UNCHANGED <<folders, wordlists, created>>

(***************************************************************************)
(* routers/wordlists_router.py                                             *)
(***************************************************************************)
\* validate_word_exists over a list: TRUE iff no lookup raises.
AllWordsExist(word_ids) == \A k \in 1..Len(word_ids) : word_ids[k] \in DOMAIN words

\* validate_folder_exists: the status it raises, 0 when it returns.
validate_folder_exists(folder_id) ==
    IF ~IsValidObjectId(folder_id) THEN 400
    ELSE IF find_folder(ObjectId(folder_id)) = {} THEN 404
    ELSE 0

\* resolve_words_in_wordlist that gives up at the first key whose word is
\* missing.
RECURSIVE resolve_words_until_missing(_)
resolve_words_until_missing(word_ids) ==
    IF word_ids = <<>> THEN <<>>
    ELSE IF Head(word_ids) \in DOMAIN words
         THEN <<words[Head(word_ids)]>> \o resolve_words_until_missing(Tail(word_ids))
         ELSE <<>>

\* resolve_words_in_wordlist: the words array of the resolved WordList.
RECURSIVE resolve_words_in_wordlist(_)
resolve_words_in_wordlist(word_ids) ==
    IF word_ids = <<>> THEN <<>>
    ELSE IF Head(word_ids) \in DOMAIN words
         THEN <<words[Head(word_ids)]>> \o resolve_words_in_wordlist(Tail(word_ids))
         ELSE resolve_words_in_wordlist(Tail(word_ids))

\* create_wordlist without the lookup of an existing WordList.
create_wordlist_unchecked(user_id, folder_id, req_words) ==
    LET req == Request("create_wordlist", NoId, user_id, folder_id, None, req_words)
        word_list_id == generate_wordlist_id(user_id, folder_id)
        folder_status == validate_folder_exists(folder_id)
    IN  IF folder_status # 0
        THEN /\ last' = HTTPException(req, folder_status, "folder")
             /\ UNCHANGED <<words, folders, wordlists, clock, created>>
        ELSE IF ~AllWordsExist(req_words)
        THEN /\ last' = HTTPException(req, 404, "not found in global dictionary")
             /\ UNCHANGED <<words, folders, wordlists, clock, created>>
        ELSE /\ clock < MaxClock
             /\ clock' = clock + 1
             /\ LET wordlist_doc ==
                        [word_list_id |-> word_list_id, user_id |-> user_id,
                         folder_id |-> folder_id, words |-> req_words,
                         created_at |-> clock', updated_at |-> clock']
                IN  /\ wordlists' = Append(wordlists, wordlist_doc)
                    /\ last' = WordListResponse(req, wordlist_doc)
             /\ created' = created \cup {<<user_id, folder_id>>}
             /\ UNCHANGED <<words, folders>>

\* create_wordlist that inserts the document before it validates the words.
create_wordlist_insert_first(user_id, folder_id, req_words) ==
    LET req == Request("create_wordlist", NoId, user_id, folder_id, None, req_words)
        word_list_id == generate_wordlist_id(user_id, folder_id)
        folder_status == validate_folder_exists(folder_id)
    IN  IF find_one(wordlists, word_list_id) # 0
        THEN /\ last' = HTTPException(req, 409, "WordList already exists")
             /\ UNCHANGED <<words, folders, wordlists, clock, created>>
        ELSE IF folder_status # 0
        THEN /\ last' = HTTPException(req, folder_status, "folder")
             /\ UNCHANGED <<words, folders, wordlists, clock, created>>
        ELSE /\ clock < MaxClock
             /\ clock' = clock + 1
             /\ LET wordlist_doc ==
                        [word_list_id |-> word_list_id, user_id |-> user_id,
                         folder_id |-> folder_id, words |-> req_words,
                         created_at |-> clock', updated_at |-> clock']
                IN  /\ wordlists' = Append(wordlists, wordlist_doc)
                    /\ last' = IF AllWordsExist(req_words)
                               THEN WordListResponse(req, wordlist_doc)
                               ELSE HTTPException(req, 404, "not found in global dictionary")
             /\ created' = created \cup {<<user_id, folder_id>>}
             /\ UNCHANGED <<words, folders>>

create_wordlist(user_id, folder_id, req_words) ==
    LET req == Request("create_wordlist", NoId, user_id, folder_id, None, req_words)
        word_list_id == generate_wordlist_id(user_id, folder_id)
        folder_status == validate_folder_exists(folder_id)
    IN  IF find_one(wordlists, word_list_id) # 0
        THEN /\ last' = HTTPException(req, 409, "WordList already exists")
             /\ UNCHANGED <<words, folders, wordlists, clock, created>>
        ELSE IF folder_status # 0
        THEN /\ last' = HTTPException(req, folder_status, "folder")
             /\ UNCHANGED <<words, folders, wordlists, clock, created>>
        ELSE IF ~AllWordsExist(req_words)
        THEN /\ last' = HTTPException(req, 404, "not found in global dictionary")
             /\ UNCHANGED <<words, folders, wordlists, clock, created>>
        ELSE /\ clock < MaxClock
             /\ clock' = clock + 1
             /\ LET wordlist_doc ==
                        [word_list_id |-> word_list_id, user_id |-> user_id,
                         folder_id |-> folder_id, words |-> req_words,
                         created_at |-> clock', updated_at |-> clock']
                IN  /\ wordlists' = Append(wordlists, wordlist_doc)
                    /\ last' = WordListResponse(req, wordlist_doc)
             /\ created' = created \cup {<<user_id, folder_id>>}
             /\ UNCHANGED <<words, folders>>

\* get_wordlist that answers an unknown id with an empty WordList.
get_wordlist_lenient(word_list_id) ==
    LET req == Request("get_wordlist", word_list_id, NoId, NoId, None, <<>>)
        i == find_one(wordlists, word_list_id)
    IN  /\ last' = IF i = 0
                   THEN [req EXCEPT !.status = 200, !.word_list_id = word_list_id]
                   ELSE WordListResponse(req, wordlists[i])
        /\ UNCHANGED <<words, folders, wordlists, clock, created>>

get_wordlist(word_list_id) ==
    LET req == Request("get_wordlist", word_list_id, NoId, NoId, None, <<>>)
        i == find_one(wordlists, word_list_id)
    IN  /\ last' = IF i = 0 THEN HTTPException(req, 404, "WordList not found")
                   ELSE WordListResponse(req, wordlists[i])
        /\ UNCHANGED <<words, folders, wordlists, clock, created>>

get_wordlist_with_words(word_list_id) ==
    LET req == Request("get_wordlist_with_words", word_list_id, NoId, NoId, None, <<>>)
        i == find_one(wordlists, word_list_id)
    IN  /\ last' = IF i = 0 THEN HTTPException(req, 404, "WordList not found")
                   ELSE [WordListResponse(req, wordlists[i])
                           EXCEPT !.words = <<>>,
                                  !.resolved = resolve_words_in_wordlist(wordlists[i].words)]
        /\ UNCHANGED <<words, folders, wordlists, clock, created>>

update_wordlist(word_list_id, user_id, folder_id) ==
    LET req == [Request("update_wordlist", word_list_id, user_id, folder_id, None, <<>>)
                  EXCEPT !.req.fields =
                      {f \in {"user_id", "folder_id"} :
                          [user_id |-> user_id, folder_id |-> folder_id][f] # NoId}]
        i == find_one(wordlists, word_list_id)
        folder_status == IF folder_id = NoId THEN 0 ELSE validate_folder_exists(folder_id)
    IN  IF i = 0
        THEN /\ last' = HTTPException(req, 404, "WordList not found")
             /\ UNCHANGED <<words, folders, wordlists, clock, created>>
        ELSE IF folder_status # 0
        THEN /\ last' = HTTPException(req, folder_status, "folder")
             /\ UNCHANGED <<words, folders, wordlists, clock, created>>
        ELSE /\ clock < MaxClock
             /\ clock' = clock + 1
             /\ wordlists' = [wordlists EXCEPT ![i] =
                    [@ EXCEPT !.updated_at = clock',
                              !.user_id = IF user_id = NoId THEN @ ELSE user_id,
                              !.folder_id = IF folder_id = NoId THEN @ ELSE folder_id]]
             /\ last' = WordListResponse(req, wordlists'[i])
             /\ UNCHANGED <<words, folders, created>>

delete_wordlist(word_list_id) ==
    LET req == Request("delete_wordlist", word_list_id, NoId, NoId, None, <<>>)
    IN  IF find_one(wordlists, word_list_id) = 0
        THEN /\ last' = HTTPException(req, 404, "WordList not found")
             /\ UNCHANGED <<words, folders, wordlists, clock, created>>
        ELSE /\ wordlists' = delete_one(wordlists, word_list_id)
             /\ last' = [req EXCEPT !.status = 200]
             /\ created' = {p \in created :
                               generate_wordlist_id(p[1], p[2]) # word_list_id}
             /\ UNCHANGED <<words, folders, clock>>

\* The loop without current_words.add(word_id): a key repeated in the
\* request is appended to new_words each time it occurs.
AddLoop_NoInsert(word_ids, new_words, current_words) ==
    [new_words |-> new_words \o SelectSeq(word_ids, LAMBDA w : w \notin current_words),
     current_words |-> current_words \cup Range(word_ids)]

\* The loop of add_words_to_wordlist over request.word_ids: the keys it
\* appends to new_words and the set current_words it ends with.
RECURSIVE AddLoop(_, _, _)
AddLoop(word_ids, new_words, current_words) ==
    IF word_ids = <<>>
    THEN [new_words |-> new_words, current_words |-> current_words]
    ELSE IF Head(word_ids) \notin current_words
         THEN AddLoop(Tail(word_ids), Append(new_words, Head(word_ids)),
                      current_words \cup {Head(word_ids)})
         ELSE AddLoop(Tail(word_ids), new_words, current_words)

\* add_words_to_wordlist that skips the keys missing from the dictionary
\* instead of failing.
add_words_to_wordlist_partial(word_list_id, word_ids) ==
    LET req == Request("add_words_to_wordlist", word_list_id, NoId, NoId, None, word_ids)
        i == find_one(wordlists, word_list_id)
        found == SelectSeq(word_ids, LAMBDA w : w \in DOMAIN words)
    IN  IF i = 0
        THEN /\ last' = HTTPException(req, 404, "WordList not found")
             /\ UNCHANGED <<words, folders, wordlists, clock, created>>
        ELSE LET loop == AddLoop(found, <<>>, Range(wordlists[i].words))
             IN  /\ clock < MaxClock
                 /\ clock' = clock + 1
                 /\ \E listed \in ListsOf(loop.current_words) :
                        wordlists' = [wordlists EXCEPT ![i] =
                                         [@ EXCEPT !.words = listed,
                                                   !.updated_at = clock']]
                 /\ last' = [WordListResponse(req, wordlists'[i])
                               EXCEPT !.added = Len(loop.new_words),
                                      !.skipped = Len(word_ids) - Len(loop.new_words)]
                 /\ UNCHANGED <<words, folders, created>>

\* add_words_to_wordlist that appends the request to the stored array.
add_words_to_wordlist_append(word_list_id, word_ids) ==
    LET req == Request("add_words_to_wordlist", word_list_id, NoId, NoId, None, word_ids)
        i == find_one(wordlists, word_list_id)
    IN  IF i = 0
        THEN /\ last' = HTTPException(req, 404, "WordList not found")
             /\ UNCHANGED <<words, folders, wordlists, clock, created>>
        ELSE IF ~AllWordsExist(word_ids)
        THEN /\ last' = HTTPException(req, 404, "not found in global dictionary")
             /\ UNCHANGED <<words, folders, wordlists, clock, created>>
        ELSE /\ clock < MaxClock
             /\ clock' = clock + 1
             /\ wordlists' = [wordlists EXCEPT ![i] =
                                 [@ EXCEPT !.words = @ \o word_ids,
                                           !.updated_at = clock']]
             /\ last' = [WordListResponse(req, wordlists'[i])
                           EXCEPT !.added = Len(word_ids), !.skipped = 0]
             /\ UNCHANGED <<words, folders, created>>

add_words_to_wordlist(word_list_id, word_ids) ==
    LET req == Request("add_words_to_wordlist", word_list_id, NoId, NoId, None, word_ids)
        i == find_one(wordlists, word_list_id)
    IN  IF i = 0
        THEN /\ last' = HTTPException(req, 404, "WordList not found")
             /\ UNCHANGED <<words, folders, wordlists, clock, created>>
        ELSE IF ~AllWordsExist(word_ids)
        THEN /\ last' = HTTPException(req, 404, "not found in global dictionary")
             /\ UNCHANGED <<words, folders, wordlists, clock, created>>
        ELSE LET loop == AddLoop(word_ids, <<>>, Range(wordlists[i].words))
             IN  /\ clock < MaxClock
                 /\ clock' = clock + 1
                 \* list(current_words): a set is listed in an arbitrary order
                 /\ \E listed \in ListsOf(loop.current_words) :
                        wordlists' = [wordlists EXCEPT ![i] =
                                         [@ EXCEPT !.words = listed,
                                                   !.updated_at = clock']]
                 /\ last' = [WordListResponse(req, wordlists'[i])
                               EXCEPT !.added = Len(loop.new_words),
                                      !.skipped = Len(word_ids) - Len(loop.new_words)]
                 /\ UNCHANGED <<words, folders, created>>

\* remove_word_from_wordlist with the update_one outside the membership test.
remove_word_from_wordlist_touch(word_list_id, word_id) ==
    LET req == Request("remove_word_from_wordlist", word_list_id, NoId, NoId, word_id, <<>>)
        i == find_one(wordlists, word_list_id)
        present == word_id \in Range(wordlists[i].words)
    IN  IF i = 0
        THEN /\ last' = HTTPException(req, 404, "WordList not found")
             /\ UNCHANGED <<words, folders, wordlists, clock, created>>
        ELSE /\ clock < MaxClock
             /\ clock' = clock + 1
             /\ wordlists' = [wordlists EXCEPT ![i] =
                    [@ EXCEPT !.words = IF present THEN ListRemove(@, word_id) ELSE @,
                              !.updated_at = clock']]
             /\ last' = [WordListResponse(req, wordlists'[i])
                           EXCEPT !.detail = IF present THEN "removed from WordList"
                                             ELSE "was not in WordList"]
             /\ UNCHANGED <<words, folders, created>>

\* remove_word_from_wordlist that also drops the word from the dictionary.
remove_word_from_wordlist_cascade(word_list_id, word_id) ==
    LET req == Request("remove_word_from_wordlist", word_list_id, NoId, NoId, word_id, <<>>)
        i == find_one(wordlists, word_list_id)
    IN  IF i = 0
        THEN /\ last' = HTTPException(req, 404, "WordList not found")
             /\ UNCHANGED <<words, folders, wordlists, clock, created>>
        ELSE IF word_id \in Range(wordlists[i].words)
        THEN /\ clock < MaxClock
             /\ clock' = clock + 1
             /\ wordlists' = [wordlists EXCEPT ![i] =
                    [@ EXCEPT !.words = ListRemove(@, word_id),
                              !.updated_at = clock']]
             /\ words' = [w \in DOMAIN words \ {word_id} |-> words[w]]
             /\ last' = [WordListResponse(req, wordlists'[i])
                           EXCEPT !.detail = "removed from WordList"]
             /\ UNCHANGED <<folders, created>>
        ELSE /\ last' = [WordListResponse(req, wordlists[i])
                           EXCEPT !.detail = "was not in WordList"]
             /\ UNCHANGED <<words, folders, wordlists, clock, created>>

remove_word_from_wordlist(word_list_id, word_id) ==
    LET req == Request("remove_word_from_wordlist", word_list_id, NoId, NoId, word_id, <<>>)
        i == find_one(wordlists, word_list_id)
    IN  IF i = 0
        THEN /\ last' = HTTPException(req, 404, "WordList not found")
             /\ UNCHANGED <<words, folders, wordlists, clock, created>>
        ELSE IF word_id \in Range(wordlists[i].words)
        THEN /\ clock < MaxClock
             /\ clock' = clock + 1
             /\ wordlists' = [wordlists EXCEPT ![i] =
                    [@ EXCEPT !.words = ListRemove(@, word_id),
                              !.updated_at = clock']]
             /\ last' = [WordListResponse(req, wordlists'[i])
                           EXCEPT !.detail = "removed from WordList"]
             /\ UNCHANGED <<words, folders, created>>
        ELSE /\ last' = [WordListResponse(req, wordlists[i])
                           EXCEPT !.detail = "was not in WordList"]
             /\ UNCHANGED <<words, folders, wordlists, clock, created>>

\* get_folder_wordlist_with_words that treats a missing WordList as the
\* by-id lookups do.
get_folder_wordlist_strict(user_id, folder_id) ==
    LET req == Request("get_folder_wordlist_with_words", NoId, user_id, folder_id, None, <<>>)
        word_list_id == generate_wordlist_id(user_id, folder_id)
        i == find_one(wordlists, word_list_id)
    IN  /\ last' = IF i = 0
                   THEN HTTPException(req, 404, "WordList not found")
                   ELSE [WordListResponse(req, wordlists[i])
                           EXCEPT !.words = <<>>,
                                  !.resolved = resolve_words_in_wordlist(wordlists[i].words)]
        /\ UNCHANGED <<words, folders, wordlists, clock, created>>

get_folder_wordlist_with_words(user_id, folder_id) ==
    LET req == Request("get_folder_wordlist_with_words", NoId, user_id, folder_id, None, <<>>)
        word_list_id == generate_wordlist_id(user_id, folder_id)
        i == find_one(wordlists, word_list_id)
    IN  /\ last' = IF i = 0
                   THEN [req EXCEPT !.status = 200,
                                    !.detail = "No WordList found for this folder",
                                    !.word_list_id = word_list_id,
                                    !.user_id = user_id, !.folder_id = folder_id,
                                    !.words = <<>>, !.resolved = <<>>,
                                    !.created_at = clock, !.updated_at = clock]
                   ELSE [WordListResponse(req, wordlists[i])
                           EXCEPT !.words = <<>>,
                                  !.resolved = resolve_words_in_wordlist(wordlists[i].words)]
        /\ UNCHANGED <<words, folders, wordlists, clock, created>>

\* Number of listed keys whose word exists and has a truthy value in field.
\* The counting loop with an "is not None" test in place of truthiness.
RECURSIVE CountWith_NotNone(_, _)
CountWith_NotNone(word_ids, field) ==
    IF word_ids = <<>> THEN 0
    ELSE (IF Head(word_ids) \in DOMAIN words /\ words[Head(word_ids)][field] # None
          THEN 1 ELSE 0) + CountWith_NotNone(Tail(word_ids), field)

RECURSIVE CountWith(_, _)
CountWith(word_ids, field) ==
    IF word_ids = <<>> THEN 0
    ELSE (IF Head(word_ids) \in DOMAIN words /\ Truthy(words[Head(word_ids)][field])
          THEN 1 ELSE 0) + CountWith(Tail(word_ids), field)

get_wordlist_stats(word_list_id) ==
    LET req == Request("get_wordlist_stats", word_list_id, NoId, NoId, None, <<>>)
        i == find_one(wordlists, word_list_id)
    IN  /\ last' = IF i = 0 THEN HTTPException(req, 404, "WordList not found")
                   ELSE [req EXCEPT !.status = 200,
                               !.word_list_id = word_list_id,
                               !.total_words = Len(wordlists[i].words),
                               !.words_with_images = CountWith(wordlists[i].words, "image_url"),
                               !.words_with_examples = CountWith(wordlists[i].words, "example"),
                               !.updated_at = wordlists[i].updated_at]
        /\ UNCHANGED <<words, folders, wordlists, clock, created>>

(***************************************************************************)
(* The client.  Requests are sent one at a time, as by the test-suite's    *)
(* synchronous TestClient: the next request is sent once the response to   *)
(* the previous one has been received.                                     *)
(***************************************************************************)
ReceiveResponse ==
    /\ last # NoResponse
    /\ last' = NoResponse
    /\ UNCHANGED <<words, folders, wordlists, clock, created, inflight,
                   user_folder_words, image_users>>

Handle ==
    \/ \E w \in WordIds, t \in WordTexts, d \in Definitions, e \in Examples :
           create_word(w, t, d, e) /\ UNCHANGED image_users
    \/ \E w \in WordIds, d \in {"d2", Unset}, e \in {"", Unset} :
           update_word(w, Unset, d, e) /\ UNCHANGED image_users
    \/ \E w \in WordIds : delete_word(w)
    \/ \E u \in UserIds, f \in FolderIds, ws \in SeqsUpTo(WordIds, 0, MaxReqLen) :
           create_wordlist(u, f, ws) /\ UNCHANGED image_users
    \/ \E id \in WordListIds : get_wordlist(id) /\ UNCHANGED image_users
    \/ \E id \in WordListIds : get_wordlist_with_words(id) /\ UNCHANGED image_users
    \/ \E id \in WordListIds, u \in {OTHER_EMAIL, NoId},
          f \in {TEST_FOLDER_ID, UNKNOWN_FOLDER_ID, NoId} :
           update_wordlist(id, u, f) /\ UNCHANGED image_users
    \/ \E id \in WordListIds : delete_wordlist(id) /\ UNCHANGED image_users
    \/ \E id \in WordListIds, ws \in SeqsUpTo(WordIds, 1, MaxReqLen) :
           add_words_to_wordlist(id, ws) /\ UNCHANGED image_users
    \/ \E id \in WordListIds, w \in WordIds : remove_word_from_wordlist(id, w) /\ UNCHANGED image_users
    \/ \E u \in UserIds, f \in FolderIds : get_folder_wordlist_with_words(u, f) /\ UNCHANGED image_users
    \/ \E id \in WordListIds : get_wordlist_stats(id) /\ UNCHANGED image_users

Next ==
    \/ last = NoResponse /\ Handle /\ UNCHANGED <<inflight, user_folder_words>>
    \/ ReceiveResponse

Spec == Init /\ [][Next]_vars

(***************************************************************************)
(* Vocabulary of the properties.                                           *)
(***************************************************************************)
Stored(word_list_id) == find_one(wordlists, word_list_id) # 0

\* The stored WordList with this id (only used where Stored holds).
Doc(word_list_id) == wordlists[find_one(wordlists, word_list_id)]

Members(word_list_id) == Range(Doc(word_list_id).words)

NoDuplicates(s) == \A i, j \in 1..Len(s) : s[i] = s[j] => i = j

\* The step is the handling of a request of this kind.
Handled(op) == last = NoResponse /\ last'.op = op

\* The pair a create_wordlist or folder-scoped request names.
RequestedPair(r) == <<r.req.user_id, r.req.folder_id>>

(***************************************************************************)
(* C1: for any (owner, folder) pair, if create_wordlist has succeeded for  *)
(* the pair and the WordList has not been deleted since, another           *)
(* create_wordlist for the pair answers 409 and leaves the wordlists       *)
(* collection (membership, owner, folder, timestamps) exactly as it was.   *)
(***************************************************************************)
C1_SecondCreateConflicts ==
    [][(Handled("create_wordlist") /\ RequestedPair(last') \in created)
         => (last'.status = 409 /\ wordlists' = wordlists)]_vars

C1_Witness ==
    /\ last.op = "create_wordlist"
    /\ last.status = 409
    /\ RequestedPair(last) \in created
    /\ Len(last.req.word_ids) > 0
    /\ Stored(generate_wordlist_id(last.req.user_id, last.req.folder_id))
    /\ Doc(generate_wordlist_id(last.req.user_id, last.req.folder_id)).updated_at > 0

(***************************************************************************)
(* C2: add_words_to_wordlist is all-or-nothing: when some requested key    *)
(* is missing from the dictionary the call answers 404 and no WordList     *)
(* changes, even if other requested keys exist and are not yet members.    *)
(***************************************************************************)
C2_AddAllOrNothing ==
    [][(Handled("add_words_to_wordlist") /\ ~AllWordsExist(last'.req.word_ids))
         => (last'.status = 404 /\ wordlists' = wordlists)]_vars

C2_Witness ==
    /\ last.op = "add_words_to_wordlist"
    /\ last.status = 404
    /\ Stored(last.req.word_list_id)
    /\ \E k \in Range(last.req.word_ids) :
           k \in DOMAIN words /\ k \notin Members(last.req.word_list_id)
    /\ \E k \in Range(last.req.word_ids) : k \notin DOMAIN words

(***************************************************************************)
(* C3: after a successful add_words_to_wordlist the stored membership, as  *)
(* a set, is the union of the prior membership and the requested keys, and *)
(* no key occurs twice in it.                                              *)
(***************************************************************************)
C3_AddIsSetUnion ==
    [][(Handled("add_words_to_wordlist") /\ last'.status = 200)
         => LET id == last'.req.word_list_id
                i  == find_one(wordlists, id)
                j  == find_one(wordlists', id)
            IN  /\ i # 0 /\ j # 0
                /\ Range(wordlists'[j].words) =
                       Range(wordlists[i].words) \cup Range(last'.req.word_ids)
                /\ NoDuplicates(wordlists'[j].words)
                /\ last'.words = wordlists'[j].words]_vars

\* A request that repeats a new key, sent to a WordList that already has a
\* member from an earlier call.
C3_Witness ==
    /\ last.op = "add_words_to_wordlist"
    /\ last.status = 200
    /\ ~NoDuplicates(last.req.word_ids)
    /\ last.added = 1
    /\ Stored(last.req.word_list_id)
    /\ Cardinality(Members(last.req.word_list_id)) = 2

(***************************************************************************)
(* C4: for every successful add_words_to_wordlist the reported skipped     *)
(* count is the number of request entries that were already members        *)
(* before the call, and the added count is the number of distinct          *)
(* requested keys that were not members before the call.                   *)
(***************************************************************************)
\* Entries of the request whose key was a member before the call.
AlreadyMembers(word_ids, prior) ==
    {k \in 1..Len(word_ids) : word_ids[k] \in prior}

\* Entries of the request that repeat an earlier entry with a new key.
RepeatedNew(word_ids, prior) ==
    {k \in 1..Len(word_ids) :
        word_ids[k] \notin prior /\ \E j \in 1..(k - 1) : word_ids[j] = word_ids[k]}

C4_Original ==
    [][(Handled("add_words_to_wordlist") /\ last'.status = 200)
         => LET ids == last'.req.word_ids
                prior == Members(last'.req.word_list_id)
            IN  /\ last'.skipped = Cardinality(AlreadyMembers(ids, prior))
                /\ last'.added = Cardinality(Range(ids) \ prior)]_vars

\* C4 as amended: the skipped count is the number of request entries that
\* were already members before the call plus the number of entries that
\* repeat an earlier entry of the same request with a new key (so skipped =
\* entries - added); the added count is the number of distinct requested
\* keys that were not members before the call.
C4_SkippedCountsRepeats ==
    [][(Handled("add_words_to_wordlist") /\ last'.status = 200)
         => LET ids == last'.req.word_ids
                prior == Members(last'.req.word_list_id)
            IN  /\ last'.skipped = Cardinality(AlreadyMembers(ids, prior))
                                   + Cardinality(RepeatedNew(ids, prior))
                /\ last'.added = Cardinality(Range(ids) \ prior)
                /\ last'.added + last'.skipped = Len(ids)]_vars

C4_Witness ==
    /\ last.op = "add_words_to_wordlist"
    /\ last.status = 200
    /\ Len(last.req.word_ids) = 2
    /\ last.req.word_ids[1] = last.req.word_ids[2]
    /\ last.added = 1
    /\ last.skipped = 1

(***************************************************************************)
(* C5: in every reachable state no stored WordList's membership holds the  *)
(* same word key twice.                                                    *)
(***************************************************************************)
C5_NoDuplicateMembership ==
    \A i \in 1..Len(wordlists) : NoDuplicates(wordlists[i].words)

(***************************************************************************)
(* C6: remove_word_from_wordlist with a key that is a member succeeds,     *)
(* shrinks the membership by exactly one, leaves the key no longer a       *)
(* member and keeps all other members.                                     *)
(***************************************************************************)
C6_RemovePresentKey ==
    [][(/\ Handled("remove_word_from_wordlist")
        /\ Stored(last'.req.word_list_id)
        /\ last'.req.word_id \in Members(last'.req.word_list_id))
         => LET id == last'.req.word_list_id
                before == Doc(id).words
                after == wordlists'[find_one(wordlists', id)].words
            IN  /\ last'.status = 200
                /\ Len(after) = Len(before) - 1
                /\ last'.req.word_id \notin Range(after)
                /\ Range(after) = Range(before) \ {last'.req.word_id}]_vars

(***************************************************************************)
(* C7: remove_word_from_wordlist with a key that is not a member of an     *)
(* existing WordList succeeds, reports that nothing changed and leaves     *)
(* every stored WordList, membership and updated_at included, as it was    *)
(* (so repeating the removal changes nothing either).                      *)
(***************************************************************************)
C7_RemoveAbsentKeyIsNoOp ==
    [][(/\ Handled("remove_word_from_wordlist")
        /\ Stored(last'.req.word_list_id)
        /\ last'.req.word_id \notin Members(last'.req.word_list_id))
         => /\ last'.status = 200
            /\ last'.detail = "was not in WordList"
            /\ wordlists' = wordlists
            /\ last'.words = Doc(last'.req.word_list_id).words
            /\ last'.updated_at = Doc(last'.req.word_list_id).updated_at]_vars

C7_Witness ==
    /\ last.op = "remove_word_from_wordlist"
    /\ last.status = 200
    /\ last.detail = "was not in WordList"
    /\ Len(last.words) > 0
    /\ last.req.word_id \in DOMAIN words

(***************************************************************************)
(* C8: resolving a stored WordList, by id or through the folder-scoped     *)
(* lookup, succeeds and returns exactly the records of the membership keys *)
(* that exist in the dictionary at read time; keys of deleted words are    *)
(* left out and never fail the request.                                    *)
(***************************************************************************)
ResolvingOps == {"get_wordlist_with_words", "get_folder_wordlist_with_words"}

\* The WordList id a resolving request looks up.
LookedUpId(r) ==
    IF r.op = "get_folder_wordlist_with_words"
    THEN generate_wordlist_id(r.req.user_id, r.req.folder_id)
    ELSE r.req.word_list_id

C8_ResolveSkipsDeletedWords ==
    (last.op \in ResolvingOps /\ Stored(LookedUpId(last)))
      => LET ids == SelectSeq(Doc(LookedUpId(last)).words,
                              LAMBDA k : k \in DOMAIN words)
         IN  /\ last.status = 200
             /\ Len(last.resolved) = Len(ids)
             /\ \A n \in 1..Len(ids) : last.resolved[n] = words[ids[n]]

\* A WordList with a resolvable member listed after a deleted one.
C8_Witness ==
    /\ last.op \in ResolvingOps
    /\ last.status = 200
    /\ Stored(LookedUpId(last))
    /\ Len(last.resolved) > 0
    /\ Doc(LookedUpId(last)).words[1] \notin DOMAIN words

(***************************************************************************)
(* C9: the folder-scoped lookup for a pair with no stored WordList answers *)
(* 200 with the derived id of the pair and an empty words array.           *)
(***************************************************************************)
C9_FolderLookupEmpty ==
    (/\ last.op = "get_folder_wordlist_with_words"
     /\ ~Stored(generate_wordlist_id(last.req.user_id, last.req.folder_id)))
      => /\ last.status = 200
         /\ last.word_list_id =
                generate_wordlist_id(last.req.user_id, last.req.folder_id)
         /\ last.user_id = last.req.user_id
         /\ last.folder_id = last.req.folder_id
         /\ last.words = <<>>
         /\ last.resolved = <<>>

C9_Witness ==
    /\ last.op = "get_folder_wordlist_with_words"
    /\ last.status = 200
    /\ last.req.folder_id = NONEXISTENT_FOLDER
    /\ ~Stored(generate_wordlist_id(last.req.user_id, last.req.folder_id))
    /\ Len(wordlists) > 0

(***************************************************************************)
(* C10: every by-id WordList operation answers 404, changing no stored     *)
(* data, exactly when no WordList with that id is stored.                  *)
(***************************************************************************)
ByIdOps ==
    {"get_wordlist", "get_wordlist_with_words", "get_wordlist_stats",
     "update_wordlist", "add_words_to_wordlist", "remove_word_from_wordlist",
     "delete_wordlist"}

HandledById == last = NoResponse /\ last'.op \in ByIdOps

C10_Original ==
    [][HandledById
         => /\ (last'.status = 404) <=> ~Stored(last'.req.word_list_id)
            /\ last'.status = 404 => UNCHANGED <<words, folders, wordlists>>]_vars

\* The request names a well-formed folder id that no folder has.
NamesMissingFolder(r) ==
    /\ r.req.folder_id # NoId
    /\ IsValidObjectId(r.req.folder_id)
    /\ \A f \in folders : f._id # ObjectId(r.req.folder_id)

\* C10 as amended: a by-id operation answers 404 and changes nothing
\* whenever no WordList with that id is stored (it was never created, or was
\* deleted and not created again since).  For a stored WordList get,
\* get-with-words, stats, remove and delete never answer 404; add answers
\* 404 exactly when a requested key is missing from the dictionary and
\* update exactly when it names a well-formed folder id that no folder has,
\* and these answers change nothing either.
C10_NotFoundForUnknownId ==
    [][HandledById
         => LET id == last'.req.word_list_id
            IN  /\ Stored(id) <=>
                     \E p \in created : generate_wordlist_id(p[1], p[2]) = id
                /\ ~Stored(id) => last'.status = 404
                /\ last'.status = 404 => UNCHANGED <<words, folders, wordlists>>
                /\ Stored(id) =>
                     ((last'.status = 404) <=>
                        \/ /\ last'.op = "add_words_to_wordlist"
                           /\ ~AllWordsExist(last'.req.word_ids)
                        \/ /\ last'.op = "update_wordlist"
                           /\ NamesMissingFolder(last'))]_vars

\* The WordList of the initial database is looked up after its deletion.
C10_Witness ==
    /\ last.op = "get_wordlist"
    /\ last.status = 404
    /\ last.req.word_list_id = FixtureWordList.word_list_id
    /\ ~Stored(last.req.word_list_id)

(***************************************************************************)
(* C11: for a stored WordList the statistics report words_with_images and  *)
(* words_with_examples each at most total_words, equal to the number of    *)
(* members that still exist in the dictionary and have a non-null image    *)
(* reference, respectively a non-null example (an empty string being       *)
(* non-null).                                                              *)
(***************************************************************************)
\* Positions of the stored words array whose word exists and whose field is
\* none of the values in absent.
EntriesWith(word_list_id, field, absent) ==
    {n \in 1..Len(Doc(word_list_id).words) :
        /\ Doc(word_list_id).words[n] \in DOMAIN words
        /\ words[Doc(word_list_id).words[n]][field] \notin absent}

StatsAnswered ==
    /\ last.op = "get_wordlist_stats"
    /\ last.status = 200
    /\ Stored(last.req.word_list_id)

C11_Original ==
    StatsAnswered
      => /\ last.words_with_images <= last.total_words
         /\ last.words_with_examples <= last.total_words
         /\ last.words_with_images =
              Cardinality(EntriesWith(last.req.word_list_id, "image_url", {None}))
         /\ last.words_with_examples =
              Cardinality(EntriesWith(last.req.word_list_id, "example", {None}))

\* C11 as amended: the two counts are at most total_words, the length of the
\* stored words array, and count the entries of that array whose word still
\* exists and whose image reference, respectively example, is neither null
\* nor the empty string.
C11_StatsCountNonEmptyFields ==
    StatsAnswered
      => /\ last.total_words = Len(Doc(last.req.word_list_id).words)
         /\ last.words_with_images <= last.total_words
         /\ last.words_with_examples <= last.total_words
         /\ last.words_with_images =
              Cardinality(EntriesWith(last.req.word_list_id, "image_url",
                                      {None, ""}))
         /\ last.words_with_examples =
              Cardinality(EntriesWith(last.req.word_list_id, "example",
                                      {None, ""}))

\* Statistics of a WordList with an existing member that has an image and
\* whose example is the empty string.
C11_Witness ==
    /\ StatsAnswered
    /\ \E k \in Members(last.req.word_list_id) :
          k \in DOMAIN words /\ words[k].example = ""
    /\ last.words_with_images > 0
    /\ last.words_with_examples < last.words_with_images

(***************************************************************************)
(* Key derivation.  The folder of the initial database belongs to an owner *)
(* with an arbitrary identifier; that owner creates and deletes the        *)
(* WordList of the folder and looks WordLists up under arbitrary folder    *)
(* identifiers (the lookup route takes both as unvalidated path strings).  *)
(***************************************************************************)
IdChars == {"a", "@", ".", "-"}
IdStrings == SeqsUpTo(IdChars, 1, MaxIdLen)

IdInit ==
    /\ words = [w \in {"APPLE_001"} |-> FixtureWord(w)]
    /\ \E u \in IdStrings :
          folders = {[_id |-> ObjectId(TEST_FOLDER_ID), user_id |-> u]}
    /\ wordlists = <<>>
    /\ clock = 0
    /\ last = NoResponse
    /\ created = {}
    /\ inflight = <<>>
    /\ user_folder_words = {}
    /\ image_users = {words[w].image_url : w \in DOMAIN words}

\* The user id that differs from user_id in the characters the derivation
\* rewrites: "@" and "." exchanged.
Exchanged(user_id) ==
    [n \in 1..Len(user_id) |->
        IF user_id[n] = "@" THEN "." ELSE IF user_id[n] = "." THEN "@" ELSE user_id[n]]

\* The callers: the owner of the folder and the user whose id is the
\* owner's with "@" and "." exchanged.
Callers == {u \in IdStrings : \E fd \in folders : u \in {fd.user_id, Exchanged(fd.user_id)}}

IdHandle ==
    \/ \E u \in Callers, ws \in SeqsUpTo(WordIds, 0, 1) :
           create_wordlist(u, TEST_FOLDER_ID, ws)
    \/ \E u \in Callers, f \in IdStrings \cup {TEST_FOLDER_ID} :
           get_folder_wordlist_with_words(u, f)
    \/ \E fd \in folders :
           delete_wordlist(generate_wordlist_id(fd.user_id, TEST_FOLDER_ID))

IdNext ==
    \/ /\ last = NoResponse
       /\ IdHandle
       /\ UNCHANGED <<inflight, user_folder_words, image_users>>
    \/ ReceiveResponse

IdSpec == IdInit /\ [][IdNext]_vars

(***************************************************************************)
(* C12: the WordList id of (owner, folder) is list_, the owner id with     *)
(* every @ and . replaced by _, then _, then the folder id with every -    *)
(* replaced by _; create_wordlist stores its document under this id and    *)
(* the folder-scoped lookup looks this id up.                              *)
(***************************************************************************)
\* The derived key, character by character.
DerivedKey(owner, folder) ==
    [n \in 1..(Len(owner) + Len(folder) + 6) |->
        IF n <= 5 THEN <<"l","i","s","t","_">>[n]
        ELSE IF n <= 5 + Len(owner)
             THEN IF owner[n - 5] \in {"@", "."} THEN "_" ELSE owner[n - 5]
        ELSE IF n = 6 + Len(owner) THEN "_"
        ELSE IF folder[n - 6 - Len(owner)] = "-" THEN "_"
             ELSE folder[n - 6 - Len(owner)]]

C12_DerivedKeyUsed ==
    LET key == DerivedKey(last.req.user_id, last.req.folder_id)
    IN  /\ (last.op = "create_wordlist" /\ last.status = 200)
             => /\ last.word_list_id = key
                /\ Stored(key)
                /\ Doc(key).user_id = last.req.user_id
                /\ Doc(key).folder_id = last.req.folder_id
        /\ last.op = "get_folder_wordlist_with_words"
             => /\ last.status = 200
                /\ last.word_list_id = key
                /\ Stored(key) => last.created_at = Doc(key).created_at
                /\ Stored(key) <=> last.detail # "No WordList found for this folder"

\* The lookup finds the WordList the owner created, the owner identifier
\* holding both characters that the derivation rewrites.
C12_Witness ==
    /\ last.op = "get_folder_wordlist_with_words"
    /\ last.status = 200
    /\ Stored(last.word_list_id)
    /\ {"@", "."} \subseteq Range(last.req.user_id)
    /\ last.resolved # <<>>

(***************************************************************************)
(* C13: in every state reachable by sequential WordList operations at most *)
(* one stored WordList has any given (user_id, folder_id) pair.            *)
(***************************************************************************)
C13_OneWordListPerPair ==
    \A i, j \in 1..Len(wordlists) :
        (/\ wordlists[i].user_id = wordlists[j].user_id
         /\ wordlists[i].folder_id = wordlists[j].folder_id) => i = j

(***************************************************************************)
(* Concurrent requests.  A handler is a coroutine that yields at every     *)
(* await of a store operation, so the store operations of requests in      *)
(* flight interleave.  inflight[c] is the frame of the request of client   *)
(* c: the handler's position and its local variables.  One step performs   *)
(* the next store operation of a request and runs its handler up to the    *)
(* following await.                                                        *)
(***************************************************************************)
Clients == {"c1", "c2"}

NoFrame ==
    [pc |-> "idle", op |-> "none", user_id |-> NoId, folder_id |-> NoId,
     word_list_id |-> NoId, word_ids |-> <<>>, existing_words |-> <<>>,
     k |-> 0, status |-> 0, written_at |-> 0, response_words |-> <<>>]

\* raise HTTPException(status_code): the request is answered.
Raise(frame, status_code) == [frame EXCEPT !.pc = "done", !.status = status_code]

\* add_words_to_wordlist up to its first find_one.
add_words_find(c, word_list_id, word_ids) ==
    LET i == find_one(wordlists, word_list_id)
        frame == [NoFrame EXCEPT !.op = "add_words_to_wordlist",
                                 !.word_list_id = word_list_id,
                                 !.word_ids = word_ids]
    IN  /\ inflight[c].pc = "idle"
        /\ inflight' = [inflight EXCEPT ![c] =
              IF i = 0 THEN Raise(frame, 404)
              ELSE [frame EXCEPT !.pc = "validate", !.k = 1,
                                 !.existing_words = wordlists[i].words]]
        /\ UNCHANGED <<words, folders, wordlists, clock, last, created,
                     user_folder_words>>

\* One validate_word_exists call of the validation loop.
validate_word_exists(c) ==
    LET frame == inflight[c]
    IN  /\ frame.pc = "validate"
        /\ inflight' = [inflight EXCEPT ![c] =
              IF frame.word_ids[frame.k] \notin DOMAIN words
              THEN Raise(frame, 404)
              ELSE IF frame.k = Len(frame.word_ids)
                   THEN [frame EXCEPT !.pc = "write"]
                   ELSE [frame EXCEPT !.k = @ + 1]]
        /\ UNCHANGED <<words, folders, wordlists, clock, last, created,
                     user_folder_words>>

\* The update of add_words_to_wordlist done as an atomic merge into the
\* stored array.
add_words_update_merge(c) ==
    LET frame == inflight[c]
        i == find_one(wordlists, frame.word_list_id)
    IN  /\ frame.pc = "write"
        /\ frame.op = "add_words_to_wordlist"
        /\ IF i = 0
           THEN /\ inflight' = [inflight EXCEPT ![c] = Raise(frame, 404)]
                /\ UNCHANGED <<wordlists, clock>>
           ELSE /\ clock' = clock + 1
                /\ \E listed \in ListsOf(Range(wordlists[i].words)
                                           \cup Range(frame.word_ids)) :
                       wordlists' = [wordlists EXCEPT ![i] =
                                        [@ EXCEPT !.words = listed,
                                                  !.updated_at = clock']]
                /\ inflight' = [inflight EXCEPT ![c] =
                       [frame EXCEPT !.pc = "refetch", !.written_at = clock']]
        /\ UNCHANGED <<words, folders, last, created,
                     user_folder_words>>

\* The dedup loop over the snapshot read by find_one, then update_one.
add_words_update(c) ==
    LET frame == inflight[c]
        i == find_one(wordlists, frame.word_list_id)
        loop == AddLoop(frame.word_ids, <<>>, Range(frame.existing_words))
    IN  /\ frame.pc = "write"
        /\ frame.op = "add_words_to_wordlist"
        /\ IF i = 0
           THEN /\ inflight' = [inflight EXCEPT ![c] = Raise(frame, 404)]
                /\ UNCHANGED <<wordlists, clock>>
           ELSE /\ clock' = clock + 1
                /\ \E listed \in ListsOf(loop.current_words) :
                       wordlists' = [wordlists EXCEPT ![i] =
                                        [@ EXCEPT !.words = listed,
                                                  !.updated_at = clock']]
                /\ inflight' = [inflight EXCEPT ![c] =
                       [frame EXCEPT !.pc = "refetch", !.written_at = clock']]
        /\ UNCHANGED <<words, folders, last, created,
                     user_folder_words>>

\* The find_one after the update, converted to the response.
add_words_refetch(c) ==
    LET frame == inflight[c]
        i == find_one(wordlists, frame.word_list_id)
    IN  /\ frame.pc = "refetch"
        /\ inflight' = [inflight EXCEPT ![c] =
              IF i = 0 THEN Raise(frame, 500)
              ELSE [Raise(frame, 200) EXCEPT !.response_words = wordlists[i].words]]
        /\ UNCHANGED <<words, folders, wordlists, clock, last, created,
                     user_folder_words>>

\* create_wordlist up to its find_one of the derived id.
create_wordlist_find(c, user_id, folder_id, req_words) ==
    LET word_list_id == generate_wordlist_id(user_id, folder_id)
        frame == [NoFrame EXCEPT !.op = "create_wordlist",
                                 !.user_id = user_id, !.folder_id = folder_id,
                                 !.word_list_id = word_list_id,
                                 !.word_ids = req_words]
    IN  /\ inflight[c].pc = "idle"
        /\ inflight' = [inflight EXCEPT ![c] =
              IF find_one(wordlists, word_list_id) # 0
              THEN Raise(frame, 409)
              ELSE [frame EXCEPT !.pc = "folder"]]
        /\ UNCHANGED <<words, folders, wordlists, clock, last, created,
                     user_folder_words>>

\* validate_folder_exists of create_wordlist.
create_wordlist_folder(c) ==
    LET frame == inflight[c]
        folder_status == validate_folder_exists(frame.folder_id)
    IN  /\ frame.pc = "folder"
        /\ inflight' = [inflight EXCEPT ![c] =
              IF folder_status # 0 THEN Raise(frame, folder_status)
              ELSE IF frame.word_ids = <<>>
                   THEN [frame EXCEPT !.pc = "write"]
                   ELSE [frame EXCEPT !.pc = "validate", !.k = 1]]
        /\ UNCHANGED <<words, folders, wordlists, clock, last, created,
                     user_folder_words>>

\* insert_one of create_wordlist and the response built from the document.
create_wordlist_insert(c) ==
    LET frame == inflight[c]
    IN  /\ frame.pc = "write"
        /\ frame.op = "create_wordlist"
        /\ clock' = clock + 1
        /\ wordlists' = Append(wordlists,
              [word_list_id |-> frame.word_list_id, user_id |-> frame.user_id,
               folder_id |-> frame.folder_id, words |-> frame.word_ids,
               created_at |-> clock', updated_at |-> clock'])
        /\ inflight' = [inflight EXCEPT ![c] =
              [Raise(frame, 200) EXCEPT !.written_at = clock',
                                        !.response_words = frame.word_ids]]
        /\ created' = created \cup {<<frame.user_id, frame.folder_id>>}
        /\ UNCHANGED <<words, folders, last, user_folder_words>>

\* The database of the concurrent runs: both fixture words exist and the
\* WordList of (hardcoded user, test folder) is stored with no members.
ConcInit ==
    /\ words = [w \in WordIds |-> FixtureWord(w)]
    /\ folders = {[_id |-> ObjectId(TEST_FOLDER_ID), user_id |-> HARDCODED_EMAIL]}
    /\ wordlists = <<[FixtureWordList EXCEPT !.words = <<>>]>>
    /\ clock = 0
    /\ last = NoResponse
    /\ created = {<<HARDCODED_EMAIL, TEST_FOLDER_ID>>}
    /\ inflight = [c \in Clients |-> NoFrame]
    /\ user_folder_words = {}
    /\ image_users = {words[w].image_url : w \in DOMAIN words}

ConcNext ==
    \/ \E c \in Clients, ws \in SeqsUpTo(WordIds, 1, MaxReqLen) :
           add_words_find(c, FixtureWordList.word_list_id, ws) /\ UNCHANGED image_users
    \/ \E c \in Clients : validate_word_exists(c) /\ UNCHANGED image_users
    \/ \E c \in Clients : add_words_update(c) /\ UNCHANGED image_users
    \/ \E c \in Clients : add_words_refetch(c) /\ UNCHANGED image_users
    \/ \E c \in Clients, ws \in SeqsUpTo(WordIds, 0, 1) :
           create_wordlist_find(c, OTHER_EMAIL, TEST_FOLDER_ID, ws) /\ UNCHANGED image_users
    \/ \E c \in Clients : create_wordlist_folder(c) /\ UNCHANGED image_users
    \/ \E c \in Clients : create_wordlist_insert(c) /\ UNCHANGED image_users
    \/ \E w \in WordIds : delete_word(w) /\ UNCHANGED <<inflight, user_folder_words>>

ConcSpec == ConcInit /\ [][ConcNext]_vars

(***************************************************************************)
(* C14: two concurrent add_words_to_wordlist requests against the same     *)
(* WordList can both read the same prior membership and each write back    *)
(* its own union; both succeed and the membership lacks the keys added by  *)
(* one of them (last write wins on the whole array).                       *)
(***************************************************************************)
\* The add request of client c has written the stored version of its list.
WroteStoredVersion(c) ==
    /\ inflight[c].op = "add_words_to_wordlist"
    /\ inflight[c].written_at # 0
    /\ Stored(inflight[c].word_list_id)
    /\ Doc(inflight[c].word_list_id).updated_at = inflight[c].written_at

\* The stored membership is the union computed by the request that wrote
\* last, from the membership that request read: what another request wrote
\* in between is overwritten.
C14_LastWriteWinsWholeArray ==
    \A c \in Clients :
        WroteStoredVersion(c)
          => Members(inflight[c].word_list_id) =
                 Range(inflight[c].existing_words) \cup Range(inflight[c].word_ids)

\* Both requests read the same membership, both answered 200, and a key one
\* of them added is not stored.
C14_Witness ==
    /\ \A c \in Clients :
          /\ inflight[c].op = "add_words_to_wordlist"
          /\ inflight[c].pc = "done"
          /\ inflight[c].status = 200
          /\ inflight[c].word_list_id = FixtureWordList.word_list_id
    /\ inflight["c1"].existing_words = inflight["c2"].existing_words
    /\ \E c \in Clients :
          \E key \in Range(inflight[c].word_ids) :
              /\ key \in Range(inflight[c].response_words)
              /\ key \notin Members(FixtureWordList.word_list_id)
    /\ DOMAIN words = WordIds

(***************************************************************************)
(* C15: every word key that create_wordlist or add_words_to_wordlist       *)
(* writes into a membership as a new member exists in the dictionary at    *)
(* the moment the write is applied, also when delete_word requests of      *)
(* other clients run between the existence checks and the write.           *)
(***************************************************************************)
\* The keys a step makes members of the i-th stored WordList.
NewMembers(i) ==
    Range(wordlists'[i].words)
      \ (IF i <= Len(wordlists) THEN Range(wordlists[i].words) ELSE {})

C15_NewMembersExistAtWrite ==
    [][\A i \in 1..Len(wordlists') : NewMembers(i) \subseteq DOMAIN words']_vars

(***************************************************************************)
(* routers/folders_router.py.  The caller of every folder operation is the *)
(* hardcoded user (get_hardcoded_user); a folder document is               *)
(* [_id, user_id, name, created_at, updated_at].                           *)
(***************************************************************************)
\* The id of a folder that belongs to another owner.
OTHER_FOLDER_ID == RepeatedHex("b")

Digits == <<"1", "2", "3", "4", "5", "6", "7", "8">>

\* The ObjectId that insert_one generates at time t: ObjectIds embed the
\* time of their creation, so that no id is generated twice.
NewObjectId(t) == [i \in 1..ObjectIdHexLen |-> IF i = ObjectIdHexLen THEN Digits[t] ELSE "f"]

FolderNames == {"n2"}

UpperHex(c) ==
    CASE c = "a" -> "A" [] c = "b" -> "B" [] c = "c" -> "C"
      [] c = "d" -> "D" [] c = "e" -> "E" [] c = "f" -> "F"
      [] OTHER -> c

\* The id of the caller's folder written with upper-case digits; bson reads
\* the hexadecimal digits of an ObjectId in either case.
TEST_FOLDER_ID_UPPER == [i \in 1..ObjectIdHexLen |-> UpperHex(TEST_FOLDER_ID[i])]

\* The folder ids that requests carry: the caller's folder (in lower and in
\* upper case), the folder of another owner, a well-formed id of no folder,
\* a malformed id, and the ids of the folders created since.
RequestFolderIds ==
    {TEST_FOLDER_ID, TEST_FOLDER_ID_UPPER, OTHER_FOLDER_ID, UNKNOWN_FOLDER_ID,
     NONEXISTENT_FOLDER}
      \cup {NewObjectId(t) : t \in 1..MaxClock}

\* validate_object_id that lets every string through to the query.
validate_object_id_lenient(folder_id) == TRUE

\* validate_object_id: TRUE iff ObjectId(folder_id) raises no InvalidId.
validate_object_id(folder_id) == IsValidObjectId(folder_id)

\* folders_col.find_one({"_id": obj_id, "user_id": user["email"]})
find_own_folder(obj_id) ==
    {f \in folders : f._id = obj_id /\ f.user_id = HARDCODED_EMAIL}

\* convert_folder_to_response of a folder document, status 200.
FolderResponse(req, folder) ==
    [req EXCEPT !.status = 200, !.folder_id = folder._id,
                !.user_id = folder.user_id, !.name = folder.name,
                !.created_at = folder.created_at,
                !.updated_at = folder.updated_at]

create_folder(name) ==
    LET req == Request("create_folder", NoId, NoId, NoId, None, <<>>)
    IN  /\ clock < MaxClock
        /\ clock' = clock + 1
        /\ LET folder_data ==
                   [_id |-> NewObjectId(clock'), user_id |-> HARDCODED_EMAIL,
                    name |-> name, created_at |-> clock', updated_at |-> clock']
           IN  /\ folders' = folders \cup {folder_data}
               /\ last' = FolderResponse(req, folder_data)
        /\ UNCHANGED <<words, wordlists, created, inflight, user_folder_words>>

\* get_folder that looks the folder up by its id alone.
get_folder_any_owner(folder_id) ==
    LET req == Request("get_folder", NoId, NoId, folder_id, None, <<>>)
        found == find_folder(ObjectId(folder_id))
    IN  /\ last' = IF ~validate_object_id(folder_id)
                   THEN HTTPException(req, 400, "Invalid folder ID format")
                   ELSE IF found = {}
                   THEN HTTPException(req, 404, "Folder not found")
                   ELSE FolderResponse(req, CHOOSE f \in found : TRUE)
        /\ UNCHANGED <<words, folders, wordlists, clock, created, inflight,
                       user_folder_words>>

get_folder(folder_id) ==
    LET req == Request("get_folder", NoId, NoId, folder_id, None, <<>>)
        found == find_own_folder(ObjectId(folder_id))
    IN  /\ last' = IF ~validate_object_id(folder_id)
                   THEN HTTPException(req, 400, "Invalid folder ID format")
                   ELSE IF found = {}
                   THEN HTTPException(req, 404, "Folder not found")
                   ELSE FolderResponse(req, CHOOSE f \in found : TRUE)
        /\ UNCHANGED <<words, folders, wordlists, clock, created, inflight,
                       user_folder_words>>

\* update_folder: update_data always holds updated_at, so the test for an
\* empty update never fires.
update_folder(folder_id, name) ==
    LET req == [Request("update_folder", NoId, NoId, folder_id, None, <<>>)
                  EXCEPT !.req.fields = IF name = Unset THEN {} ELSE {"name"}]
        found == find_own_folder(ObjectId(folder_id))
    IN  IF ~validate_object_id(folder_id)
        THEN /\ last' = HTTPException(req, 400, "Invalid folder ID format")
             /\ UNCHANGED <<words, folders, wordlists, clock, created, inflight,
                            user_folder_words>>
        ELSE IF found = {}
        THEN /\ last' = HTTPException(req, 404, "Folder not found")
             /\ UNCHANGED <<words, folders, wordlists, clock, created, inflight,
                            user_folder_words>>
        ELSE /\ clock < MaxClock
             /\ clock' = clock + 1
             /\ LET folder == CHOOSE f \in found : TRUE
                    updated == [folder EXCEPT
                                  !.name = IF name = Unset THEN @ ELSE name,
                                  !.updated_at = clock']
                IN  /\ folders' = (folders \ {folder}) \cup {updated}
                    /\ last' = FolderResponse(req, updated)
             /\ UNCHANGED <<words, wordlists, created, inflight, user_folder_words>>

delete_folder(folder_id) ==
    LET req == Request("delete_folder", NoId, NoId, folder_id, None, <<>>)
        found == find_own_folder(ObjectId(folder_id))
    IN  /\ IF ~validate_object_id(folder_id)
           THEN /\ last' = HTTPException(req, 400, "Invalid folder ID format")
                /\ UNCHANGED folders
           ELSE IF found = {}
           THEN /\ last' = HTTPException(req, 404, "Folder not found")
                /\ UNCHANGED folders
           ELSE /\ folders' = folders \ found
                /\ last' = [req EXCEPT !.status = 200]
        /\ UNCHANGED <<words, wordlists, clock, created, inflight, user_folder_words>>

(***************************************************************************)
(* routers/words_router.py: the words of a folder.  Its handlers receive   *)
(* the wordlists collection (Depends(get_wordlists_collection)), so their  *)
(* documents, [_id, word, definition, folder_id, user_id, created_at,      *)
(* updated_at], are stored next to the WordList documents.                 *)
(***************************************************************************)
\* validate_folder_ownership: the status it raises, 0 when it returns.
validate_folder_ownership(folder_obj_id) ==
    IF find_own_folder(folder_obj_id) = {} THEN 404 ELSE 0

\* Positions of the documents that find(query) over folder_id and user_id
\* matches.
find_in_folder(coll, folder_id) ==
    SelectSeq(coll, LAMBDA doc : /\ doc.folder_id = folder_id
                                 /\ doc.user_id = HARDCODED_EMAIL)

\* A document validates as WordResponse only if it holds the word fields.
IsWordDocument(doc) == {"word", "definition"} \subseteq DOMAIN doc

words_router_list_words_in_folder(folder_id) ==
    LET req == Request("words_router_list_words_in_folder", NoId, NoId, folder_id, None, <<>>)
        found == find_in_folder(wordlists, folder_id)
    IN  /\ last' =
              IF ~validate_object_id(folder_id)
              THEN HTTPException(req, 400, "Invalid folder ID format")
              ELSE IF validate_folder_ownership(ObjectId(folder_id)) # 0
              THEN HTTPException(req, 404, "Folder not found or does not belong to user")
              ELSE IF \E n \in 1..Len(found) : ~IsWordDocument(found[n])
              THEN HTTPException(req, 500, "ResponseValidationError")
              ELSE [req EXCEPT !.status = 200, !.resolved = found]
        /\ UNCHANGED <<words, folders, wordlists, clock, created, inflight,
                       user_folder_words>>

words_router_create_word(folder_id, word, definition) ==
    LET req == Request("words_router_create_word", NoId, NoId, folder_id, None, <<>>)
    IN  IF ~validate_object_id(folder_id)
        THEN /\ last' = HTTPException(req, 400, "Invalid folder ID format")
             /\ UNCHANGED <<words, folders, wordlists, clock, created, inflight,
                            user_folder_words>>
        ELSE IF validate_folder_ownership(ObjectId(folder_id)) # 0
        THEN /\ last' = HTTPException(req, 404, "Folder not found or does not belong to user")
             /\ UNCHANGED <<words, folders, wordlists, clock, created, inflight,
                            user_folder_words>>
        ELSE /\ clock < MaxClock
             /\ clock' = clock + 1
             /\ LET word_data ==
                        [_id |-> NewObjectId(clock'), word |-> word,
                         definition |-> definition, folder_id |-> folder_id,
                         user_id |-> HARDCODED_EMAIL,
                         created_at |-> clock', updated_at |-> clock']
                IN  /\ wordlists' = Append(wordlists, word_data)
                    /\ last' = [req EXCEPT !.status = 200,
                                           !.resolved = <<word_data>>]
             /\ UNCHANGED <<words, folders, created, inflight, user_folder_words>>

\* Position of the word document with this _id owned by the caller, 0 if none.
find_own_word(coll, word_obj_id) ==
    LET S == {i \in 1..Len(coll) : /\ "_id" \in DOMAIN coll[i]
                                   /\ coll[i]._id = word_obj_id
                                   /\ coll[i].user_id = HARDCODED_EMAIL}
    IN  IF S = {} THEN 0 ELSE Min(S)

words_router_update_word(word_id, definition) ==
    LET req == [Request("words_router_update_word", NoId, NoId, NoId, word_id, <<>>)
                  EXCEPT !.req.fields = IF definition = Unset THEN {} ELSE {"definition"}]
        i == find_own_word(wordlists, ObjectId(word_id))
    IN  IF ~validate_object_id(word_id)
        THEN /\ last' = HTTPException(req, 400, "Invalid word ID format")
             /\ UNCHANGED <<words, folders, wordlists, clock, created, inflight,
                            user_folder_words>>
        ELSE IF definition = Unset
        THEN /\ last' = HTTPException(req, 400, "No fields to update")
             /\ UNCHANGED <<words, folders, wordlists, clock, created, inflight,
                            user_folder_words>>
        ELSE IF i = 0
        THEN /\ last' = HTTPException(req, 404, "Word not found")
             /\ UNCHANGED <<words, folders, wordlists, clock, created, inflight,
                            user_folder_words>>
        ELSE /\ clock < MaxClock
             /\ clock' = clock + 1
             /\ wordlists' = [wordlists EXCEPT ![i] =
                    [@ EXCEPT !.definition = definition, !.updated_at = clock']]
             /\ last' = [req EXCEPT !.status = 200, !.resolved = <<wordlists'[i]>>]
             /\ UNCHANGED <<words, folders, created, inflight, user_folder_words>>

(***************************************************************************)
(* routers/user_folder_words_router.py: the assignment store, one document *)
(* [word_id, folder_id, user_id, created_at, updated_at] per word assigned *)
(* to a folder.                                                            *)
(***************************************************************************)
\* find({"user_id": ..., "folder_id": folder_id}) and, with a word_id, the
\* find_one / delete_one filter of one assignment.
find_assignments(folder_id) ==
    {a \in user_folder_words :
        a.user_id = HARDCODED_EMAIL /\ a.folder_id = folder_id}

\* The elements of a set of assignments in the order of created_at.
RECURSIVE SortByCreatedAt(_)
SortByCreatedAt(S) ==
    IF S = {} THEN <<>>
    ELSE LET first == CHOOSE a \in S : \A b \in S : a.created_at <= b.created_at
         IN  <<first>> \o SortByCreatedAt(S \ {first})

add_word_to_folder(folder_id, word_id) ==
    LET req == Request("add_word_to_folder", NoId, NoId, folder_id, word_id, <<>>)
        status_code ==
            IF ~validate_object_id(folder_id) THEN 400
            ELSE IF validate_folder_ownership(ObjectId(folder_id)) # 0 THEN 404
            ELSE IF word_id \notin DOMAIN words THEN 404
            ELSE IF \E a \in find_assignments(folder_id) : a.word_id = word_id THEN 409
            ELSE 0
    IN  IF status_code # 0
        THEN /\ last' = HTTPException(req, status_code, "add_word_to_folder")
             /\ UNCHANGED <<words, folders, wordlists, clock, created, inflight,
                            user_folder_words>>
        ELSE /\ clock < MaxClock
             /\ clock' = clock + 1
             /\ user_folder_words' = user_folder_words \cup
                    {[word_id |-> word_id, folder_id |-> folder_id,
                      user_id |-> HARDCODED_EMAIL,
                      created_at |-> clock', updated_at |-> clock']}
             /\ last' = [req EXCEPT !.status = 200, !.folder_id = folder_id,
                                    !.user_id = HARDCODED_EMAIL,
                                    !.resolved = <<words[word_id]>>,
                                    !.created_at = clock', !.updated_at = clock']
             /\ UNCHANGED <<words, folders, wordlists, created, inflight>>

list_words_in_folder(folder_id) ==
    LET req == Request("list_words_in_folder", NoId, NoId, folder_id, None, <<>>)
        assignments == SortByCreatedAt(find_assignments(folder_id))
        existing == SelectSeq(assignments, LAMBDA a : a.word_id \in DOMAIN words)
    IN  /\ last' =
              IF ~validate_object_id(folder_id)
              THEN HTTPException(req, 400, "Invalid ObjectId format")
              ELSE IF validate_folder_ownership(ObjectId(folder_id)) # 0
              THEN HTTPException(req, 404, "Folder not found or doesn't belong to user")
              ELSE [req EXCEPT !.status = 200,
                      !.resolved = [n \in 1..Len(existing) |-> words[existing[n].word_id]]]
        /\ UNCHANGED <<words, folders, wordlists, clock, created, inflight,
                       user_folder_words>>

remove_word_from_folder(folder_id, word_id) ==
    LET req == Request("remove_word_from_folder", NoId, NoId, folder_id, word_id, <<>>)
        matching == {a \in find_assignments(folder_id) : a.word_id = word_id}
    IN  /\ IF ~validate_object_id(folder_id)
           THEN /\ last' = HTTPException(req, 400, "Invalid ObjectId format")
                /\ UNCHANGED user_folder_words
           ELSE IF validate_folder_ownership(ObjectId(folder_id)) # 0
           THEN /\ last' = HTTPException(req, 404, "Folder not found or doesn't belong to user")
                /\ UNCHANGED user_folder_words
           ELSE IF matching = {}
           THEN /\ last' = HTTPException(req, 404, "not found in this folder")
                /\ UNCHANGED user_folder_words
           ELSE /\ user_folder_words' = user_folder_words
                      \ {CHOOSE a \in matching : \A b \in matching : a.created_at <= b.created_at}
                /\ last' = [req EXCEPT !.status = 200]
        /\ UNCHANGED <<words, folders, wordlists, clock, created, inflight>>

(***************************************************************************)
(* Folder-scoped operations.  The database holds the caller's test folder, *)
(* a folder of another owner, the fixture word and the fixture WordList;   *)
(* requests are sent one at a time.                                        *)
(***************************************************************************)
\* A user id and a malformed folder id whose derived WordList id is that of
\* (hardcoded user, test folder): the "@" and "." of the e-mail address
\* become the "_" that separates the two parts.
COLLIDING_USER == SubSeq(HARDCODED_EMAIL, 1, Len(HARDCODED_EMAIL) - Len(MAIL_DOMAIN) - 1)
COLLIDING_FOLDER == Replace(MAIL_DOMAIN, ".", "_") \o <<"_">> \o TEST_FOLDER_ID

FolderDocument(folder_id, user_id) ==
    [_id |-> ObjectId(folder_id), user_id |-> user_id, name |-> "n1",
     created_at |-> 0, updated_at |-> 0]

FolderInit ==
    /\ words = [w \in {"APPLE_001"} |-> FixtureWord(w)]
    /\ folders = {FolderDocument(TEST_FOLDER_ID, HARDCODED_EMAIL),
                  FolderDocument(OTHER_FOLDER_ID, OTHER_EMAIL)}
    /\ wordlists = <<FixtureWordList>>
    /\ clock = 0
    /\ last = NoResponse
    /\ created = {<<HARDCODED_EMAIL, TEST_FOLDER_ID>>}
    /\ inflight = <<>>
    /\ user_folder_words = {}
    /\ image_users = {words[w].image_url : w \in DOMAIN words}

FolderHandle ==
    \/ \E n \in FolderNames : create_folder(n) /\ UNCHANGED image_users
    \/ \E f \in RequestFolderIds : get_folder(f) /\ UNCHANGED image_users
    \/ \E f \in RequestFolderIds, n \in FolderNames \cup {Unset} : update_folder(f, n) /\ UNCHANGED image_users
    \/ \E f \in RequestFolderIds : delete_folder(f) /\ UNCHANGED image_users
    \/ \E f \in RequestFolderIds : words_router_list_words_in_folder(f) /\ UNCHANGED image_users
    \/ \E f \in RequestFolderIds : words_router_create_word(f, "apple", "d1") /\ UNCHANGED image_users
    \/ \E t \in 1..MaxClock, d \in {"d2", Unset} :
           words_router_update_word(NewObjectId(t), d) /\ UNCHANGED image_users
    \/ \E f \in RequestFolderIds, w \in WordIds : add_word_to_folder(f, w) /\ UNCHANGED image_users
    \/ \E f \in RequestFolderIds : list_words_in_folder(f) /\ UNCHANGED image_users
    \/ \E f \in RequestFolderIds, w \in WordIds : remove_word_from_folder(f, w) /\ UNCHANGED image_users
    \/ \E p \in ({HARDCODED_EMAIL} \X RequestFolderIds)
                  \cup {<<COLLIDING_USER, COLLIDING_FOLDER>>} :
           /\ create_wordlist(p[1], p[2], <<>>)
           /\ UNCHANGED <<inflight, user_folder_words, image_users>>
    \/ \E id \in {FixtureWordList.word_list_id,
                   generate_wordlist_id(HARDCODED_EMAIL, OTHER_FOLDER_ID)},
          f \in RequestFolderIds \cup {NoId} :
           /\ update_wordlist(id, NoId, f)
           /\ UNCHANGED <<inflight, user_folder_words, image_users>>
    \/ \E d \in {"d2", Unset} :
           /\ update_word("APPLE_001", Unset, d, Unset)
           /\ UNCHANGED <<inflight, user_folder_words, image_users>>

FolderNext ==
    \/ last = NoResponse /\ FolderHandle
    \/ ReceiveResponse

FolderSpec == FolderInit /\ [][FolderNext]_vars

(***************************************************************************)
(* C16: folder get, update and delete of a folder id that exists under     *)
(* another owner answer NotFound, exactly as for a well-formed id that     *)
(* exists under no owner, and the folder is neither returned, modified nor *)
(* deleted.                                                                *)
(***************************************************************************)
FolderByIdOps == {"get_folder", "update_folder", "delete_folder"}

\* The requested folder id is well formed and no folder of the caller has it.
NotCallersFolder(folder_id) ==
    /\ IsValidObjectId(folder_id)
    /\ \A f \in folders : f._id = ObjectId(folder_id) => f.user_id # HARDCODED_EMAIL

\* The answer carries the status and message of "not found" and no data:
\* it depends on the request alone.
C16_CrossOwnerIsNotFound ==
    [][(/\ last = NoResponse
        /\ last'.op \in FolderByIdOps
        /\ NotCallersFolder(last'.req.folder_id))
         => /\ last' = [NoResponse EXCEPT !.op = last'.op, !.req = last'.req,
                                          !.status = 404,
                                          !.detail = "Folder not found"]
            /\ folders' = folders]_vars

\* The deletion of a folder of another owner was asked for and the folder
\* is still stored.
C16_Witness ==
    /\ last.op = "delete_folder"
    /\ last.status = 404
    /\ \E f \in folders : /\ f._id = ObjectId(last.req.folder_id)
                          /\ f.user_id = OTHER_EMAIL

(***************************************************************************)
(* C17: create_wordlist for (user_id, folder_id), and update_wordlist      *)
(* setting a new folder_id, succeed only if the folder exists and its      *)
(* owner is the WordList's user_id.                                        *)
(***************************************************************************)
\* A folder with this id is stored and belongs to user_id.
FolderOwnedBy(folder_id, user_id) ==
    \E f \in folders : f._id = ObjectId(folder_id) /\ f.user_id = user_id

C17_FolderOwnerChecked ==
    /\ (last.op = "create_wordlist" /\ last.status = 200)
         => FolderOwnedBy(last.req.folder_id, last.req.user_id)
    /\ (last.op = "update_wordlist" /\ last.status = 200
          /\ last.req.folder_id # NoId)
         => FolderOwnedBy(last.req.folder_id, last.user_id)

(***************************************************************************)
(* C18: every folder-scoped operation that validates its folder answers a  *)
(* syntactically malformed folder id with a client error (400), never a    *)
(* server error, and leaves the folders, wordlists and assignment stores   *)
(* unchanged.                                                              *)
(***************************************************************************)
FolderValidatingOps ==
    {"get_folder", "update_folder", "delete_folder",
     "words_router_create_word", "words_router_list_words_in_folder",
     "add_word_to_folder", "list_words_in_folder", "remove_word_from_folder",
     "create_wordlist", "update_wordlist"}

\* A folder-validating operation is handled whose request carries a folder
\* id that is not an ObjectId string.
HandledMalformedFolderId ==
    /\ last = NoResponse
    /\ last'.op \in FolderValidatingOps
    /\ last'.req.folder_id # NoId
    /\ ~IsValidObjectId(last'.req.folder_id)

UpdateOps ==
    {"update_folder", "update_word", "words_router_update_word", "update_wordlist"}

C19_EmptyUpdateRejected ==
    [][(/\ last = NoResponse
        /\ last'.op \in UpdateOps
        /\ last'.req.fields = {})
         => /\ last'.status = 400
            /\ UNCHANGED <<folders, words, wordlists>>]_vars

(***************************************************************************)
(* The global dictionary on its own: sequential create, update, delete and *)
(* image upload calls of simplified_words_router.                          *)
(***************************************************************************)
WordHandle ==
    \/ \E w \in WordIds, t \in WordTexts, d \in Definitions, e \in Examples \cup {"ex"} :
           create_word(w, t, d, e) /\ UNCHANGED image_users
    \/ \E w \in WordIds, d \in {"d2", Unset}, e \in {"", Unset} :
           update_word(w, Unset, d, e) /\ UNCHANGED image_users
    \/ \E w \in WordIds : delete_word(w)
    \/ \E w \in WordIds, x \in Suffixes, t \in ContentTypes, n \in Sizes :
           upload_word_image(w, UploadFile(x, t, n))

WordNext ==
    \/ last = NoResponse /\ WordHandle /\ UNCHANGED <<inflight, user_folder_words>>
    \/ ReceiveResponse

WordSpec == Init /\ [][WordNext]_vars

(***************************************************************************)
(* C20: creating a global word whose word_id already exists answers 409    *)
(* and leaves the existing record unchanged; sequential create, update and *)
(* delete calls keep at most one word per word_id.                         *)
(***************************************************************************)
\* The dictionary maps a word_id to the document find_one returns for it.
\* A second document for a key can only come from an insert while the key
\* is present, so "at most one word per key" is: a word is inserted only
\* when its key is absent, and no other call adds a key.
C20_DuplicateWordIdConflicts ==
    [][last = NoResponse =>
         /\ (last'.op = "create_word" /\ last'.req.word_id \in DOMAIN words)
              => last'.status = 409 /\ words' = words
         /\ (last'.op = "create_word" /\ last'.req.word_id \notin DOMAIN words)
              => /\ last'.status = 200
                 /\ DOMAIN words' = DOMAIN words \cup {last'.req.word_id}
                 /\ \A w \in DOMAIN words : words'[w] = words[w]
         /\ last'.op # "create_word" => DOMAIN words' \subseteq DOMAIN words]_vars

\* The key of a word that was updated since its creation is created again.
C20_Witness ==
    /\ last.op = "create_word"
    /\ last.status = 409
    /\ last.req.word_id \in DOMAIN words
    /\ words[last.req.word_id].updated_at > words[last.req.word_id].created_at

(***************************************************************************)
(* C21: an upload_word_image request rejected by validation (unsupported   *)
(* extension or content type, oversized file) performs no mutation: the    *)
(* image stored for the word still exists and the word's image_url still   *)
(* refers to an existing image.                                            *)
(***************************************************************************)
C21_RejectedUploadMutatesNothing ==
    [][(/\ last = NoResponse
        /\ last'.op = "upload_word_image"
        /\ last'.status \in {400, 413})
         => /\ image_users' = image_users
            /\ words' = words
            /\ words[last'.req.word_id].image_url \in image_users
                 => words'[last'.req.word_id].image_url \in image_users']_vars

(***************************************************************************)
(* C22: remove_word_from_wordlist and delete_wordlist never create, modify *)
(* or delete a record of the dictionary: every word that existed before    *)
(* the call exists unchanged after it, and no word is added.               *)
(***************************************************************************)
C22_MembershipOpsKeepDictionary ==
    [][(/\ last = NoResponse
        /\ last'.op \in {"remove_word_from_wordlist", "delete_wordlist"})
         => words' = words]_vars

\* A key of an existing word has just been removed from a WordList, and the
\* word is still in the dictionary.
C22_Witness ==
    /\ last.op = "remove_word_from_wordlist"
    /\ last.status = 200
    /\ last.detail = "removed from WordList"
    /\ last.req.word_id \in DOMAIN words
    /\ last.req.word_id \notin Members(last.req.word_list_id)

(***************************************************************************)
(* C23: deleting a word from the dictionary leaves the membership array of *)
(* every WordList unchanged; a key that referenced the deleted word stays  *)
(* in the stored membership and is still counted in total_words.           *)
(***************************************************************************)
C23_DeleteWordKeepsMembership ==
    [][last = NoResponse =>
         /\ last'.op = "delete_word" => wordlists' = wordlists
         /\ (last'.op = "get_wordlist_stats" /\ last'.status = 200)
              => last'.total_words = Len(Doc(last'.req.word_list_id).words)]_vars

\* Statistics of a WordList one of whose members has been deleted from the
\* dictionary: the dangling key is counted.
C23_Witness ==
    /\ last.op = "get_wordlist_stats"
    /\ last.status = 200
    /\ \E w \in Members(last.req.word_list_id) : w \notin DOMAIN words
    /\ last.total_words = Len(Doc(last.req.word_list_id).words)
    /\ last.total_words > 0

(***************************************************************************)
(* C24: add_word_to_folder for a word already assigned to the same (owner, *)
(* folder) answers 409 without inserting, so that sequential                *)
(* add_word_to_folder and remove_word_from_folder calls leave at most one  *)
(* assignment row per (owner, folder, word).                               *)
(***************************************************************************)
\* The folder an assignment row refers to: the ObjectId its folder_id denotes.
AssignedFolder(a) == ObjectId(a.folder_id)

C24_OneAssignmentPerTriple ==
    \A a, b \in user_folder_words :
        (/\ a.user_id = b.user_id
         /\ AssignedFolder(a) = AssignedFolder(b)
         /\ a.word_id = b.word_id) => a = b

(***************************************************************************)
(* C25: in every reachable state each stored WordList's word_list_id is    *)
(* generate_wordlist_id of its own stored user_id and folder_id, so that   *)
(* the folder-scoped lookup for its current (user_id, folder_id) finds it, *)
(* also after update_wordlist changed user_id or folder_id.                *)
(***************************************************************************)
C25_KeyDerivedFromStoredPair ==
    \A i \in DOMAIN wordlists :
        "word_list_id" \in DOMAIN wordlists[i]
          => /\ wordlists[i].word_list_id =
                  generate_wordlist_id(wordlists[i].user_id, wordlists[i].folder_id)
             /\ find_one(wordlists,
                   generate_wordlist_id(wordlists[i].user_id, wordlists[i].folder_id)) = i

(***************************************************************************)
(* C26: when two create_wordlist requests for the same (owner, folder)     *)
(* pair run concurrently, at most one of them succeeds and at most one     *)
(* WordList document with that derived key is stored afterwards.           *)
(***************************************************************************)
C26_ConcurrentCreateAtMostOne ==
    \A c, d \in Clients :
        (/\ c # d
         /\ inflight[c].op = "create_wordlist"
         /\ inflight[d].op = "create_wordlist"
         /\ inflight[c].word_list_id = inflight[d].word_list_id)
          => /\ ~(inflight[c].status = 200 /\ inflight[d].status = 200)
             /\ Cardinality({i \in DOMAIN wordlists :
                    wordlists[i].word_list_id = inflight[c].word_list_id}) <= 1

(***************************************************************************)
(* C27: WordLists of distinct (owner, folder) pairs are isolated, also for *)
(* pairs that differ only in characters the key derivation rewrites: a     *)
(* WordList of one pair never makes create_wordlist for another pair       *)
(* answer 409 and never makes the folder-scoped lookup for another pair    *)
(* return its members.                                                     *)
(***************************************************************************)
\* The stored WordLists of exactly the pair a request names.
DocsOfPair(r) ==
    {i \in DOMAIN wordlists : /\ wordlists[i].user_id = r.user_id
                              /\ wordlists[i].folder_id = r.folder_id}

C27_DistinctPairsIsolated ==
    [][last = NoResponse =>
         /\ (last'.op = "create_wordlist" /\ last'.status = 409)
              => DocsOfPair(last'.req) # {}
         /\ (last'.op = "get_folder_wordlist_with_words" /\ last'.resolved # <<>>)
              => DocsOfPair(last'.req) # {}]_vars

(***************************************************************************)
(* C28: a create_wordlist call that fails for any reason (key already      *)
(* stored, malformed or nonexistent folder, a key of the initial words     *)
(* array missing from the dictionary) inserts no WordList and alters none: *)
(* the wordlists collection is the same before and after the call.         *)
(***************************************************************************)
C28_FailedCreateWritesNothing ==
    [][(/\ last = NoResponse
        /\ last'.op = "create_wordlist"
        /\ last'.status # 200)
         => /\ last'.status \in {400, 404, 409}
            /\ wordlists' = wordlists]_vars

\* A create_wordlist whose words array names an existing word before a
\* missing one has been answered 404, and no WordList of its pair is stored.
C28_Witness ==
    /\ last.op = "create_wordlist"
    /\ last.status = 404
    /\ last.detail = "not found in global dictionary"
    /\ Len(last.req.word_ids) > 1
    /\ last.req.word_ids[1] \in DOMAIN words
    /\ ~Stored(generate_wordlist_id(last.req.user_id, last.req.folder_id))

(***************************************************************************)
(* C29: after any interleaving of folder-word operations and WordList      *)
(* operations, list_words_in_folder of words_router returns only documents *)
(* that create_word stored for that folder and owner and never a WordList  *)
(* document, although both routers use the wordlists collection.           *)
(***************************************************************************)
C29_FolderWordsOnly ==
    (/\ last.op = "words_router_list_words_in_folder"
     /\ last.status \notin {400, 404})
      => /\ last.status = 200
         /\ \A n \in 1..Len(find_in_folder(wordlists, last.req.folder_id)) :
               /\ IsWordDocument(find_in_folder(wordlists, last.req.folder_id)[n])
               /\ "word_list_id" \notin DOMAIN find_in_folder(wordlists, last.req.folder_id)[n]
         /\ last.resolved = find_in_folder(wordlists, last.req.folder_id)

(***************************************************************************)
(* C30: after delete_folder succeeded for a folder, no membership of that  *)
(* folder remains retrievable: the folder-scoped WordList lookup for the   *)
(* owner and the folder returns an empty words array, and no WordList and  *)
(* no assignment row referring to the folder is left in the stores.        *)
(***************************************************************************)
\* The document refers to the folder a request names.
RefersToFolder(doc, folder_id) == ObjectId(doc.folder_id) = ObjectId(folder_id)

C30_DeletedFolderHasNoMembership ==
    (last.op = "delete_folder" /\ last.status = 200)
      => /\ LET i == find_one(wordlists,
                        generate_wordlist_id(HARDCODED_EMAIL, last.req.folder_id))
            IN  i # 0 => wordlists[i].words = <<>>
         /\ \A i \in DOMAIN wordlists :
               "word_list_id" \in DOMAIN wordlists[i]
                 => ~RefersToFolder(wordlists[i], last.req.folder_id)
         /\ \A a \in user_folder_words : ~RefersToFolder(a, last.req.folder_id)

====
